---- MODULE Spec2Model ----
(***************************************************************************)
(* Usage aggregate store of the Google Gemini Usage integration            *)
(* (custom_components/ha_gemini_usage/coordinator.py): the usage_data      *)
(* dictionary, the period boundary function get_period_start, the rollover *)
(* check _reset_if_needed, the scheduled refresh _async_update_data and    *)
(* the call recorder update_usage_stats.                                   *)
(*                                                                         *)
(* A datetime is a number of ticks since 2024-01-01T00:00:00Z (a Monday);  *)
(* a day has TicksPerDay ticks.  The calendar is the proleptic Gregorian   *)
(* calendar of datetime.                                                   *)
(***************************************************************************)
EXTENDS Integers, Sequences, FiniteSets

\* ------------------------------------------------------------------------
\* Bounds of the model
\* ------------------------------------------------------------------------
TicksPerDay == 2          \* clock resolution: ticks in a day
FirstDay == 27            \* first day of the observed window (2024-01-28, a Sunday)
SpanDays == 4             \* the window runs FirstDay .. FirstDay + SpanDays (2024-02-01)
CatchUpDays == 40         \* the long idle gap of the catch-up property
YearDays == 366           \* an idle gap of twelve months (2024 is a leap year)
MaxCalls == 2             \* recorded calls per behaviour
StepCalls == 1            \* recorded calls per behaviour, run statement by statement

ModelNames == {"model-x", "model-y"}
Periods == {"daily", "weekly", "monthly"}

\* ------------------------------------------------------------------------
\* datetime
\* ------------------------------------------------------------------------
IsLeap(y) == (y % 4 = 0 /\ y % 100 # 0) \/ y % 400 = 0

DaysInMonth(y, m) ==
  IF m = 2 THEN (IF IsLeap(y) THEN 29 ELSE 28)
  ELSE IF m \in {4, 6, 9, 11} THEN 30 ELSE 31

RECURSIVE DateFrom(_, _, _)
DateFrom(y, m, n) ==
  IF n < DaysInMonth(y, m)
    THEN [year |-> y, month |-> m, day |-> n + 1]
    ELSE DateFrom(IF m = 12 THEN y + 1 ELSE y,
                  IF m = 12 THEN 1 ELSE m + 1,
                  n - DaysInMonth(y, m))

\* the days the clock can show
WindowDays == FirstDay .. (FirstDay + SpanDays)
Days == WindowDays \cup {FirstDay + CatchUpDays, FirstDay + YearDays}
Instants == {d * TicksPerDay + k : d \in Days, k \in 0 .. (TicksPerDay - 1)}
\* the instants of the window alone
WindowInstants ==
  {d * TicksPerDay + k : d \in WindowDays, k \in 0 .. (TicksPerDay - 1)}

\* calendar date of each day up to the last one the clock can show, day 0
\* being 2024-01-01
LastDay == FirstDay + SpanDays + YearDays
DateTable == [d \in 0 .. LastDay |-> DateFrom(2024, 1, d)]

DayIndex(t) == t \div TicksPerDay
DateOf(t) == DateTable[DayIndex(t)]
\* datetime.month
MonthOf(t) == DateOf(t).month
\* datetime.weekday(): Monday = 0
Weekday(t) == DayIndex(t) % 7
\* datetime.timedelta(days=1), datetime.timedelta(weeks=1)
OneDay == TicksPerDay
OneWeek == 7 * TicksPerDay

\* now.replace(hour=0, minute=0, second=0, microsecond=0)
StartOfDay(t) == DayIndex(t) * TicksPerDay

\* get_period_start with weeks that begin on Sunday
get_period_start_SundayWeek(period, t) ==
  IF period = "daily" THEN StartOfDay(t)
  ELSE IF period = "weekly"
    THEN StartOfDay(t) - ((Weekday(StartOfDay(t)) + 1) % 7) * OneDay
  ELSE IF period = "monthly" THEN StartOfDay(t) - (DateOf(t).day - 1) * OneDay
  ELSE t

get_period_start(period, t) ==
  IF period = "daily" THEN StartOfDay(t)
  ELSE IF period = "weekly" THEN StartOfDay(t) - Weekday(StartOfDay(t)) * OneDay
  ELSE IF period = "monthly" THEN StartOfDay(t) - (DateOf(t).day - 1) * OneDay
  ELSE t

\* ------------------------------------------------------------------------
\* usage_data
\* ------------------------------------------------------------------------
\* the default factory of usage_data["models"]
ZeroStats ==
  [input_tokens |-> 0, output_tokens |-> 0, total_tokens |-> 0,
   daily_input_tokens |-> 0, daily_output_tokens |-> 0, daily_total_tokens |-> 0,
   weekly_input_tokens |-> 0, weekly_output_tokens |-> 0, weekly_total_tokens |-> 0,
   monthly_input_tokens |-> 0, monthly_output_tokens |-> 0, monthly_total_tokens |-> 0]

\* usage_data as __init__ builds it at instant t
InitialUsage(t) ==
  [total_requests |-> 0,
   daily_requests |-> 0,
   weekly_requests |-> 0,
   monthly_requests |-> 0,
   last_reset_daily |-> get_period_start("daily", t),
   last_reset_weekly |-> get_period_start("weekly", t),
   last_reset_monthly |-> get_period_start("monthly", t),
   models |-> [m \in {} |-> ZeroStats]]

\* ------------------------------------------------------------------------
\* _reset_if_needed
\* ------------------------------------------------------------------------
\* DailyDue without the day added to last_reset_daily
DailyDue_NoDelta(u, t) == t >= u.last_reset_daily

\* DailyDue with > for >=
DailyDue_Strict(u, t) == t > u.last_reset_daily + OneDay

DailyDue(u, t) == t >= u.last_reset_daily + OneDay
\* WeeklyDue without the week added to last_reset_weekly
WeeklyDue_NoDelta(u, t) == t >= u.last_reset_weekly

WeeklyDue(u, t) == t >= u.last_reset_weekly + OneWeek
MonthlyDue(u, t) == MonthOf(t) # MonthOf(u.last_reset_monthly)

\* the statements of the daily branch
SetLastResetDaily(u, t) ==
  [u EXCEPT !.last_reset_daily = get_period_start("daily", t)]
ZeroDailyRequests(u) == [u EXCEPT !.daily_requests = 0]
\* ZeroDailyTokens without the assignment to daily_total_tokens
ZeroDailyTokens_KeepsTotal(u) ==
  [u EXCEPT !.models = [m \in DOMAIN @ |->
                          [@[m] EXCEPT !.daily_input_tokens = 0,
                                       !.daily_output_tokens = 0]]]

ZeroDailyTokens(u) ==
  [u EXCEPT !.models = [m \in DOMAIN @ |->
                          [@[m] EXCEPT !.daily_input_tokens = 0,
                                       !.daily_output_tokens = 0,
                                       !.daily_total_tokens = 0]]]

\* the statements of the weekly branch
SetLastResetWeekly(u, t) ==
  [u EXCEPT !.last_reset_weekly = get_period_start("weekly", t)]
\* ZeroWeeklyRequests without the assignment
ZeroWeeklyRequests_Kept(u) == u

ZeroWeeklyRequests(u) == [u EXCEPT !.weekly_requests = 0]
ZeroWeeklyTokens(u) ==
  [u EXCEPT !.models = [m \in DOMAIN @ |->
                          [@[m] EXCEPT !.weekly_input_tokens = 0,
                                       !.weekly_output_tokens = 0,
                                       !.weekly_total_tokens = 0]]]

\* the statements of the monthly branch
SetLastResetMonthly(u, t) ==
  [u EXCEPT !.last_reset_monthly = get_period_start("monthly", t)]
ZeroMonthlyRequests(u) == [u EXCEPT !.monthly_requests = 0]
ZeroMonthlyTokens(u) ==
  [u EXCEPT !.models = [m \in DOMAIN @ |->
                          [@[m] EXCEPT !.monthly_input_tokens = 0,
                                       !.monthly_output_tokens = 0,
                                       !.monthly_total_tokens = 0]]]

\* ResetDaily clearing the lifetime request counter with the daily one
ResetDaily_ClearsTotal(u, t) ==
  IF DailyDue(u, t)
    THEN [ZeroDailyTokens(ZeroDailyRequests(SetLastResetDaily(u, t)))
            EXCEPT !.total_requests = 0]
    ELSE u

ResetDaily(u, t) ==
  IF DailyDue(u, t)
    THEN ZeroDailyTokens(ZeroDailyRequests(SetLastResetDaily(u, t)))
    ELSE u

\* ResetWeekly stepping last_reset_weekly by one week instead of moving it
\* to the window of t
ResetWeekly_StepsOneWeek(u, t) ==
  IF WeeklyDue(u, t)
    THEN ZeroWeeklyTokens(ZeroWeeklyRequests(
           [u EXCEPT !.last_reset_weekly = @ + OneWeek]))
    ELSE u

\* ResetWeekly clearing the monthly token counters instead of the weekly
ResetWeekly_ClearsMonthlyTokens(u, t) ==
  IF WeeklyDue(u, t)
    THEN ZeroMonthlyTokens(ZeroWeeklyRequests(SetLastResetWeekly(u, t)))
    ELSE u

ResetWeekly(u, t) ==
  IF WeeklyDue(u, t)
    THEN ZeroWeeklyTokens(ZeroWeeklyRequests(SetLastResetWeekly(u, t)))
    ELSE u

ResetMonthly(u, t) ==
  IF MonthlyDue(u, t)
    THEN ZeroMonthlyTokens(ZeroMonthlyRequests(SetLastResetMonthly(u, t)))
    ELSE u

reset_if_needed(u, t) == ResetMonthly(ResetWeekly(ResetDaily(u, t), t), t)

\* ------------------------------------------------------------------------
\* update_usage_stats
\* ------------------------------------------------------------------------
\* a result without the usage_metadata attribute
NoMetadata == [has_usage_metadata |-> FALSE,
               prompt_token_count |-> 0, candidates_token_count |-> 0,
               total_token_count |-> 0]

\* a result with usage metadata
Result(i, o, s) ==
  [has_usage_metadata |-> TRUE, prompt_token_count |-> i,
   candidates_token_count |-> o, total_token_count |-> s]

\* the results the service returns in the model: total_token_count is the
\* sum the service reports, or the getattr default 0 of an absent attribute
Results == {Result(1, 0, 1), Result(1, 2, 3), Result(2, 1, 0)}

\* Lookup with a default factory that hands out the record of an existing
\* entry instead of a fresh all-zero one
Lookup_SharedDefault(models, model_name) ==
  IF model_name \in DOMAIN models THEN models[model_name]
  ELSE IF DOMAIN models = {} THEN ZeroStats
  ELSE models[CHOOSE m \in DOMAIN models : TRUE]

\* usage_data["models"][model_name] on the defaultdict
Lookup(models, model_name) ==
  IF model_name \in DOMAIN models THEN models[model_name] ELSE ZeroStats

\* AddTokens adding the prompt count to output_tokens
AddTokens_OutputFromPrompt(s, result) ==
  [s EXCEPT !.input_tokens = @ + result.prompt_token_count,
            !.output_tokens = @ + result.prompt_token_count,
            !.total_tokens = @ + result.total_token_count,
            !.daily_input_tokens = @ + result.prompt_token_count,
            !.daily_output_tokens = @ + result.candidates_token_count,
            !.daily_total_tokens = @ + result.total_token_count,
            !.weekly_input_tokens = @ + result.prompt_token_count,
            !.weekly_output_tokens = @ + result.candidates_token_count,
            !.weekly_total_tokens = @ + result.total_token_count,
            !.monthly_input_tokens = @ + result.prompt_token_count,
            !.monthly_output_tokens = @ + result.candidates_token_count,
            !.monthly_total_tokens = @ + result.total_token_count]

AddTokens(s, result) ==
  [s EXCEPT !.input_tokens = @ + result.prompt_token_count,
            !.output_tokens = @ + result.candidates_token_count,
            !.total_tokens = @ + result.total_token_count,
            !.daily_input_tokens = @ + result.prompt_token_count,
            !.daily_output_tokens = @ + result.candidates_token_count,
            !.daily_total_tokens = @ + result.total_token_count,
            !.weekly_input_tokens = @ + result.prompt_token_count,
            !.weekly_output_tokens = @ + result.candidates_token_count,
            !.weekly_total_tokens = @ + result.total_token_count,
            !.monthly_input_tokens = @ + result.prompt_token_count,
            !.monthly_output_tokens = @ + result.candidates_token_count,
            !.monthly_total_tokens = @ + result.total_token_count]

AddRequest(u) ==
  [u EXCEPT !.total_requests = @ + 1,
            !.daily_requests = @ + 1,
            !.weekly_requests = @ + 1,
            !.monthly_requests = @ + 1]

AddModelStats(u, model_name, result) ==
  [u EXCEPT !.models =
     [m \in DOMAIN @ \cup {model_name} |->
        IF m = model_name THEN AddTokens(Lookup(@, model_name), result)
                          ELSE @[m]]]

\* update_usage_stats without the early return, the getattr defaults
\* standing in for the missing counts
update_usage_stats_NoEarlyReturn(u, model_name, result, t) ==
  AddModelStats(AddRequest(reset_if_needed(u, t)), model_name, result)

update_usage_stats(u, model_name, result, t) ==
  IF ~result.has_usage_metadata
    THEN u
    ELSE AddModelStats(AddRequest(reset_if_needed(u, t)), model_name, result)

\* ------------------------------------------------------------------------
\* State
\* ------------------------------------------------------------------------
VARIABLES
  now,          \* the latest reading of dt_util.utcnow()
  usage_data,   \* coordinator.usage_data
  refreshes,    \* calls of async_schedule_refresh so far
  pc,           \* the handler the event loop is running and its position
  reported,     \* history: the calls recorded so far, in order
  last,         \* history: the operation that produced this state
  entries,      \* unique ids of the config entries of the domain
  flow,         \* what the latest async_step_user was given and returned
  sensors,      \* model names async_setup_entry created token sensors for
  period_start, \* the latest get_period_start call observed and its value
  stamps        \* history: the instants of the recorded calls, kept by the
                \* specification whose properties speak of them

\* the state around the store: the config flow, the sensor platform and the
\* latest evaluation of the boundary function
hostVars == <<entries, flow, sensors, period_start>>

vars == <<now, usage_data, refreshes, pc, reported, last, hostVars, stamps>>

NoModel == "none"

Op(kind, model_name, result, elapsed) ==
  [op |-> kind, model |-> model_name, result |-> result, elapsed |-> elapsed]

\* a handler at label at, called with (model_name, result), the clock read
\* elapsed ticks after the previous reading
Frame(at, handler, model_name, result, elapsed) ==
  [at |-> at, handler |-> handler, model |-> model_name, result |-> result,
   elapsed |-> elapsed]

\* the event loop between two callbacks
Idle == Frame("idle", "none", NoModel, NoMetadata, 0)

\* async_set_unique_id("gemini_usage_main_account")
UniqueId == "gemini_usage_main_account"

\* the return value of async_step_user, with what the step was given: whether
\* user_input was passed and what left the try block ("none": nothing raised)
FlowResult(type, error, has_input, raised) ==
  [type |-> type, error |-> error, has_input |-> has_input, raised |-> raised]

\* a call get_period_start(period, at) and the value it returned
PeriodCall(period, at) ==
  [period |-> period, at |-> at, start |-> get_period_start(period, at)]

\* no call observed yet
NoPeriodCall == [period |-> "none", at |-> 0, start |-> 0]

\* the store right after its construction at instant now, for the entry the
\* config flow has created; the sensor platform is not set up yet
Init ==
  /\ now \in {t \in Instants : DayIndex(t) \in WindowDays}
  /\ usage_data = InitialUsage(now)
  /\ refreshes = 0
  /\ pc = Idle
  /\ reported = << >>
  /\ last = Op("init", NoModel, NoMetadata, 0)
  /\ entries = {UniqueId}
  /\ flow = FlowResult("create_entry", "none", TRUE, "none")
  /\ sensors = {}
  /\ period_start = NoPeriodCall
  /\ stamps = << >>

\* ------------------------------------------------------------------------
\* The operations, each one callback of the event loop run to completion
\* ------------------------------------------------------------------------
\* the scheduled refresh, run at instant t
AsyncUpdateData(t) ==
  /\ pc = Idle
  /\ t >= now
  /\ now' = t
  /\ usage_data' = reset_if_needed(usage_data, t)
  /\ last' = Op("refresh", NoModel, NoMetadata, t - now)
  /\ UNCHANGED <<refreshes, pc, reported>>
  /\ UNCHANGED <<hostVars, stamps>>

\* update_usage_stats(model_name, result) for a result with usage metadata
RecordUsage(model_name, result, t) ==
  /\ pc = Idle
  /\ t >= now
  /\ Len(reported) < MaxCalls
  /\ now' = t
  /\ usage_data' = update_usage_stats(usage_data, model_name, result, t)
  /\ refreshes' = refreshes + 1
  /\ reported' = Append(reported, [model |-> model_name, result |-> result])
  /\ last' = Op("record", model_name, result, t - now)
  /\ UNCHANGED pc
  /\ UNCHANGED hostVars

\* a recorded call, its instant not kept
UpdateUsageStats(model_name, result, t) ==
  /\ RecordUsage(model_name, result, t)
  /\ UNCHANGED stamps

\* a recorded call, its instant kept in stamps
UpdateUsageStatsAt(model_name, result, t) ==
  /\ RecordUsage(model_name, result, t)
  /\ stamps' = Append(stamps, t)

\* update_usage_stats(model_name, result) for a result without usage
\* metadata: the early return, before the clock is read
UpdateNoMetadata(model_name, t) ==
  /\ pc = Idle
  /\ t >= now
  /\ usage_data' = update_usage_stats(usage_data, model_name, NoMetadata, t)
  /\ last' = Op("skip", model_name, NoMetadata, 0)
  /\ UNCHANGED <<now, refreshes, pc, reported>>
  /\ UNCHANGED <<hostVars, stamps>>

\* the event loop runs one callback at a time: a sensor property is
\* evaluated only between two handlers
ReadAllowed_Preemptive == TRUE

ReadAllowed == pc = Idle

\* a sensor's native_value or last_reset reads coordinator.data, which is
\* the usage_data object itself
SensorRead ==
  /\ ReadAllowed
  /\ last' = Op("read", NoModel, NoMetadata, 0)
  /\ UNCHANGED <<now, usage_data, refreshes, pc, reported>>
  /\ UNCHANGED <<hostVars, stamps>>

Next ==
  \/ \E t \in Instants : AsyncUpdateData(t)
  \/ \E m \in ModelNames, r \in Results, t \in Instants : UpdateUsageStats(m, r, t)
  \/ \E m \in ModelNames, t \in Instants : UpdateNoMetadata(m, t)
  \/ SensorRead

Spec == Init /\ [][Next]_vars

\* ------------------------------------------------------------------------
\* The same operations statement by statement: the handlers have no await,
\* so the event loop runs each from its call to its return; last is
\* "running" from the call to the return
\* ------------------------------------------------------------------------
Goto(label) == pc' = [pc EXCEPT !.at = label]

CallAsyncUpdateData(t) ==
  /\ pc = Idle
  /\ t >= now
  /\ now' = t
  /\ pc' = Frame("daily", "refresh", NoModel, NoMetadata, t - now)
  /\ last' = Op("running", NoModel, NoMetadata, 0)
  /\ UNCHANGED <<usage_data, refreshes, reported>>
  /\ UNCHANGED <<hostVars, stamps>>

CallUpdateUsageStats(model_name, result, t) ==
  /\ pc = Idle
  /\ t >= now
  /\ Len(reported) < StepCalls
  /\ now' = t
  /\ pc' = Frame("daily", "record", model_name, result, t - now)
  /\ last' = Op("running", NoModel, NoMetadata, 0)
  /\ UNCHANGED <<usage_data, refreshes, reported>>
  /\ UNCHANGED <<hostVars, stamps>>

\* if now >= last_reset_daily + 1 day: last_reset_daily = ...
CheckDaily ==
  /\ pc.at = "daily"
  /\ IF DailyDue(usage_data, now)
       THEN usage_data' = SetLastResetDaily(usage_data, now) /\ Goto("daily_requests")
       ELSE UNCHANGED usage_data /\ Goto("weekly")
  /\ UNCHANGED <<now, refreshes, reported, last>>
  /\ UNCHANGED <<hostVars, stamps>>

ClearDailyRequests ==
  /\ pc.at = "daily_requests"
  /\ usage_data' = ZeroDailyRequests(usage_data)
  /\ Goto("daily_tokens")
  /\ UNCHANGED <<now, refreshes, reported, last>>
  /\ UNCHANGED <<hostVars, stamps>>

ClearDailyTokens ==
  /\ pc.at = "daily_tokens"
  /\ usage_data' = ZeroDailyTokens(usage_data)
  /\ Goto("weekly")
  /\ UNCHANGED <<now, refreshes, reported, last>>
  /\ UNCHANGED <<hostVars, stamps>>

CheckWeekly ==
  /\ pc.at = "weekly"
  /\ IF WeeklyDue(usage_data, now)
       THEN usage_data' = SetLastResetWeekly(usage_data, now) /\ Goto("weekly_requests")
       ELSE UNCHANGED usage_data /\ Goto("monthly")
  /\ UNCHANGED <<now, refreshes, reported, last>>
  /\ UNCHANGED <<hostVars, stamps>>

ClearWeeklyRequests ==
  /\ pc.at = "weekly_requests"
  /\ usage_data' = ZeroWeeklyRequests(usage_data)
  /\ Goto("weekly_tokens")
  /\ UNCHANGED <<now, refreshes, reported, last>>
  /\ UNCHANGED <<hostVars, stamps>>

ClearWeeklyTokens ==
  /\ pc.at = "weekly_tokens"
  /\ usage_data' = ZeroWeeklyTokens(usage_data)
  /\ Goto("monthly")
  /\ UNCHANGED <<now, refreshes, reported, last>>
  /\ UNCHANGED <<hostVars, stamps>>

CheckMonthly ==
  /\ pc.at = "monthly"
  /\ IF MonthlyDue(usage_data, now)
       THEN usage_data' = SetLastResetMonthly(usage_data, now) /\ Goto("monthly_requests")
       ELSE UNCHANGED usage_data /\ Goto("reset_done")
  /\ UNCHANGED <<now, refreshes, reported, last>>
  /\ UNCHANGED <<hostVars, stamps>>

ClearMonthlyRequests ==
  /\ pc.at = "monthly_requests"
  /\ usage_data' = ZeroMonthlyRequests(usage_data)
  /\ Goto("monthly_tokens")
  /\ UNCHANGED <<now, refreshes, reported, last>>
  /\ UNCHANGED <<hostVars, stamps>>

ClearMonthlyTokens ==
  /\ pc.at = "monthly_tokens"
  /\ usage_data' = ZeroMonthlyTokens(usage_data)
  /\ Goto("reset_done")
  /\ UNCHANGED <<now, refreshes, reported, last>>
  /\ UNCHANGED <<hostVars, stamps>>

\* _async_update_data: return self.usage_data
ReturnUsageData ==
  /\ pc.at = "reset_done"
  /\ pc.handler = "refresh"
  /\ pc' = Idle
  /\ last' = Op("refresh", NoModel, NoMetadata, pc.elapsed)
  /\ UNCHANGED <<now, usage_data, refreshes, reported>>
  /\ UNCHANGED <<hostVars, stamps>>

\* update_usage_stats: the four request counters
CountRequest ==
  /\ pc.at = "reset_done"
  /\ pc.handler = "record"
  /\ usage_data' = AddRequest(usage_data)
  /\ Goto("model_stats")
  /\ UNCHANGED <<now, refreshes, reported, last>>
  /\ UNCHANGED <<hostVars, stamps>>

\* update_usage_stats: the twelve token counters of the model
CountTokens ==
  /\ pc.at = "model_stats"
  /\ usage_data' = AddModelStats(usage_data, pc.model, pc.result)
  /\ reported' = Append(reported, [model |-> pc.model, result |-> pc.result])
  /\ Goto("schedule_refresh")
  /\ UNCHANGED <<now, refreshes, last>>
  /\ UNCHANGED <<hostVars, stamps>>

\* update_usage_stats: self.async_schedule_refresh(), and the return.
\* The method is looked up on the host's DataUpdateCoordinator, which is not
\* part of this repository: the call returns when the host class has a method
\* of that name ...
ScheduleRefresh ==
  /\ pc.at = "schedule_refresh"
  /\ refreshes' = refreshes + 1
  /\ pc' = Idle
  /\ last' = Op("record", pc.model, pc.result, pc.elapsed)
  /\ UNCHANGED <<now, usage_data, reported>>
  /\ UNCHANGED <<hostVars, stamps>>

\* ... and raises AttributeError when it has none (the class offers
\* async_request_refresh and async_refresh): the call is made, no refresh is
\* requested, and the exception leaves update_usage_stats with the counters
\* already updated
ScheduleRefreshRaises ==
  /\ pc.at = "schedule_refresh"
  /\ refreshes' = refreshes + 1
  /\ pc' = Idle
  /\ last' = Op("raised", pc.model, pc.result, pc.elapsed)
  /\ UNCHANGED <<now, usage_data, reported>>
  /\ UNCHANGED <<hostVars, stamps>>

NextSteps ==
  \/ \E t \in Instants : CallAsyncUpdateData(t)
  \/ \E m \in ModelNames, r \in Results, t \in Instants : CallUpdateUsageStats(m, r, t)
  \/ \E m \in ModelNames, t \in Instants : UpdateNoMetadata(m, t)
  \/ SensorRead
  \/ CheckDaily \/ ClearDailyRequests \/ ClearDailyTokens
  \/ CheckWeekly \/ ClearWeeklyRequests \/ ClearWeeklyTokens
  \/ CheckMonthly \/ ClearMonthlyRequests \/ ClearMonthlyTokens
  \/ ReturnUsageData \/ CountRequest \/ CountTokens
  \/ ScheduleRefresh \/ ScheduleRefreshRaises

SpecSteps == Init /\ [][NextSteps]_vars

\* ------------------------------------------------------------------------
\* The store under the polling schedule alone: update_interval is five
\* minutes, far less than a tick, so the clock moves one tick at a time and
\* a reconciliation reads it within every tick.  Here now is the clock.
\* ------------------------------------------------------------------------
\* the clock moves on one tick, once the poll due in the current tick has run
Tick ==
  /\ pc = Idle
  /\ last.op \in {"init", "refresh", "record"}
  /\ DayIndex(now + 1) \in WindowDays
  /\ now' = now + 1
  /\ last' = Op("tick", NoModel, NoMetadata, 1)
  /\ UNCHANGED <<usage_data, refreshes, pc, reported>>
  /\ UNCHANGED <<hostVars, stamps>>

\* the scheduled refresh at the instant the clock shows
Poll == AsyncUpdateData(now)

NextPolled ==
  \/ Tick
  \/ Poll
  \/ \E m \in ModelNames, r \in Results : UpdateUsageStats(m, r, now)
  \/ \E m \in ModelNames : UpdateNoMetadata(m, now)
  \/ SensorRead

\* the host runs the scheduled refresh whenever it is due
SpecPolled == Init /\ [][NextPolled]_vars /\ WF_vars(Poll)

\* ------------------------------------------------------------------------
\* get_period_start on its own: called with any tag at any instant of the
\* calendar the model covers
\* ------------------------------------------------------------------------
AllInstants == 0 .. ((LastDay + 1) * TicksPerDay - 1)

\* the three period tags and one that is none of them
Tags == Periods \cup {"hourly"}

InitPeriod ==
  /\ now \in AllInstants
  /\ usage_data = InitialUsage(now)
  /\ refreshes = 0
  /\ pc = Idle
  /\ reported = << >>
  /\ last = Op("init", NoModel, NoMetadata, 0)
  /\ entries = {UniqueId}
  /\ flow = FlowResult("create_entry", "none", TRUE, "none")
  /\ sensors = {}
  /\ period_start = NoPeriodCall
  /\ stamps = << >>

\* get_period_start(period, now), a pure function of its arguments
GetPeriodStart(period) ==
  /\ pc = Idle
  /\ period_start' = PeriodCall(period, now)
  /\ last' = Op("period_start", NoModel, NoMetadata, 0)
  /\ UNCHANGED <<now, usage_data, refreshes, pc, reported, stamps>>
  /\ UNCHANGED <<entries, flow, sensors>>

NextPeriod == \E period \in Tags : GetPeriodStart(period)

SpecPeriod == InitPeriod /\ [][NextPeriod]_vars

\* ------------------------------------------------------------------------
\* The config flow, from before the first entry exists
\* ------------------------------------------------------------------------
\* what validate_api_key does: it returns ("none") or raises a
\* PermissionDenied, another GoogleAPIError, or an exception of another kind
Outcomes == {"none", "PermissionDenied", "ServiceUnavailable", "ValueError"}

\* isinstance(exc, cls) for the classes the except clauses name; AbortFlow,
\* raised by _abort_if_unique_id_configured, is an Exception as well
IsInstance(exc, cls) ==
  \/ cls = "Exception"
  \/ cls = "GoogleAPIError" /\ exc \in {"PermissionDenied", "ServiceUnavailable"}
  \/ cls = "PermissionDenied" /\ exc = "PermissionDenied"

\* the except clauses with GoogleAPIError ahead of PermissionDenied
Handlers_BroadFirst ==
  << [class |-> "GoogleAPIError", error |-> "cannot_connect"],
     [class |-> "PermissionDenied", error |-> "invalid_auth"],
     [class |-> "Exception", error |-> "unknown"] >>

\* the except clauses of async_step_user, in order
Handlers ==
  << [class |-> "PermissionDenied", error |-> "invalid_auth"],
     [class |-> "GoogleAPIError", error |-> "cannot_connect"],
     [class |-> "Exception", error |-> "unknown"] >>

\* errors["base"] as set by the first except clause that matches exc
ErrorFor(exc) ==
  LET i == CHOOSE i \in 1 .. Len(Handlers) :
             /\ IsInstance(exc, Handlers[i].class)
             /\ \A j \in 1 .. (i - 1) : ~IsInstance(exc, Handlers[j].class)
  IN Handlers[i].error

\* what leaves the try block: the exception of the validation call, else the
\* AbortFlow of _abort_if_unique_id_configured, else nothing
Raised(outcome, configured) ==
  IF outcome # "none" THEN outcome
  ELSE IF UniqueId \in configured THEN "AbortFlow"
  ELSE "none"

\* async_step_user(user_input): the entries afterwards and the flow result
async_step_user(configured, has_input, outcome) ==
  IF ~has_input
    THEN [entries |-> configured,
          result |-> FlowResult("form", "none", FALSE, "none")]
    ELSE IF Raised(outcome, configured) = "none"
      THEN [entries |-> configured \cup {UniqueId},
            result |-> FlowResult("create_entry", "none", TRUE, outcome)]
      ELSE [entries |-> configured,
            result |-> FlowResult("form", ErrorFor(Raised(outcome, configured)),
                                  TRUE, outcome)]

\* usage_data while no coordinator has been constructed
NoStore == [constructed |-> FALSE]

Constructed == usage_data # NoStore

InitConfig ==
  /\ now \in {t \in Instants : DayIndex(t) \in WindowDays}
  /\ usage_data = NoStore
  /\ refreshes = 0
  /\ pc = Idle
  /\ reported = << >>
  /\ last = Op("init", NoModel, NoMetadata, 0)
  /\ entries = {}
  /\ flow = FlowResult("none", "none", FALSE, "none")
  /\ sensors = {}
  /\ period_start = NoPeriodCall
  /\ stamps = << >>

\* one call of async_step_user: without input, or with a key the validation
\* call answers with outcome
StepUser(has_input, outcome) ==
  /\ pc = Idle
  /\ entries' = async_step_user(entries, has_input, outcome).entries
  /\ flow' = async_step_user(entries, has_input, outcome).result
  /\ last' = Op("step_user", NoModel, NoMetadata, 0)
  /\ UNCHANGED <<now, usage_data, refreshes, pc, reported, stamps>>
  /\ UNCHANGED <<sensors, period_start>>

\* the host sets up the created entry: the coordinator is constructed at t
SetupEntry(t) ==
  /\ pc = Idle
  /\ entries # {}
  /\ ~Constructed
  /\ t >= now
  /\ now' = t
  /\ usage_data' = InitialUsage(t)
  /\ last' = Op("setup", NoModel, NoMetadata, t - now)
  /\ UNCHANGED <<refreshes, pc, reported, stamps, hostVars>>

NextConfig ==
  \/ \E outcome \in Outcomes : StepUser(TRUE, outcome)
  \/ StepUser(FALSE, "none")
  \/ \E t \in Instants : SetupEntry(t)
  \/ \E t \in Instants : Constructed /\ AsyncUpdateData(t)

SpecConfig == InitConfig /\ [][NextConfig]_vars

\* ------------------------------------------------------------------------
\* The sensor platform on a running store
\* ------------------------------------------------------------------------
\* models after models[model_name] has been evaluated: the defaultdict puts a
\* fresh all-zero entry under a key it does not hold
AfterGetItem(models, model_name) ==
  IF model_name \in DOMAIN models THEN models
  ELSE [k \in DOMAIN models \cup {model_name} |->
          IF k = model_name THEN ZeroStats ELSE models[k]]

\* token sensors for every model name the model knows
SensorModels_AllKnown(u) == ModelNames

\* the model names async_setup_entry creates token sensors for
SensorModels(u) == DOMAIN u.models

\* async_setup_entry of the sensor platform at instant t: the first refresh,
\* then the entities
SetupSensors(t) ==
  /\ pc = Idle
  /\ t >= now
  /\ now' = t
  /\ usage_data' = reset_if_needed(usage_data, t)
  /\ sensors' = SensorModels(usage_data')
  /\ last' = Op("setup_sensors", NoModel, NoMetadata, t - now)
  /\ UNCHANGED <<refreshes, pc, reported, stamps>>
  /\ UNCHANGED <<entries, flow, period_start>>

\* native_value of a ModelTokenSensor or PeriodicModelTokenSensor of model
\* model_name: coordinator.data["models"][model_name].get(key)
ModelSensorRead(model_name) ==
  /\ ReadAllowed
  /\ model_name \in sensors
  /\ usage_data' =
       [usage_data EXCEPT !.models = AfterGetItem(@, model_name)]
  /\ last' = Op("read", model_name, NoMetadata, 0)
  /\ UNCHANGED <<now, refreshes, pc, reported, stamps, hostVars>>

NextSensors ==
  \/ \E t \in WindowInstants : AsyncUpdateData(t)
  \/ \E m \in ModelNames, r \in Results, t \in WindowInstants : UpdateUsageStats(m, r, t)
  \/ \E t \in WindowInstants : SetupSensors(t)
  \/ SensorRead
  \/ \E m \in ModelNames : ModelSensorRead(m)

SpecSensors == Init /\ [][NextSensors]_vars

\* ------------------------------------------------------------------------
\* The store with the instant of every recorded call kept
\* ------------------------------------------------------------------------
\* every call reports the same three distinct token counts: the instants
\* and the models are what varies here
WindowResults == {Result(1, 2, 3)}

NextWindows ==
  \/ \E t \in Instants : AsyncUpdateData(t)
  \/ \E m \in ModelNames, r \in WindowResults, t \in Instants :
       UpdateUsageStatsAt(m, r, t)

SpecWindows == Init /\ [][NextWindows]_vars

TypeOK ==
  /\ now \in Instants
  /\ usage_data.total_requests \in 0 .. MaxCalls
  /\ DOMAIN usage_data.models \subseteq ModelNames

\* ------------------------------------------------------------------------
\* Views of usage_data used by the properties
\* ------------------------------------------------------------------------
TokenKinds == {"input", "output", "total"}

LifetimeField(k) ==
  CASE k = "input" -> "input_tokens"
    [] k = "output" -> "output_tokens"
    [] k = "total" -> "total_tokens"

PeriodField(P, k) ==
  CASE P = "daily" /\ k = "input" -> "daily_input_tokens"
    [] P = "daily" /\ k = "output" -> "daily_output_tokens"
    [] P = "daily" /\ k = "total" -> "daily_total_tokens"
    [] P = "weekly" /\ k = "input" -> "weekly_input_tokens"
    [] P = "weekly" /\ k = "output" -> "weekly_output_tokens"
    [] P = "weekly" /\ k = "total" -> "weekly_total_tokens"
    [] P = "monthly" /\ k = "input" -> "monthly_input_tokens"
    [] P = "monthly" /\ k = "output" -> "monthly_output_tokens"
    [] P = "monthly" /\ k = "total" -> "monthly_total_tokens"

Requests(u, P) ==
  CASE P = "daily" -> u.daily_requests
    [] P = "weekly" -> u.weekly_requests
    [] P = "monthly" -> u.monthly_requests

LastReset(u, P) ==
  CASE P = "daily" -> u.last_reset_daily
    [] P = "weekly" -> u.last_reset_weekly
    [] P = "monthly" -> u.last_reset_monthly

\* the rollover condition of period P as _reset_if_needed evaluates it on
\* store u at instant t
Fires(u, P, t) ==
  CASE P = "daily" -> DailyDue(u, t)
    [] P = "weekly" -> WeeklyDue(u, t)
    [] P = "monthly" -> MonthlyDue(u, t)

\* instant t lies in a later window of period P than the one that starts at
\* last_reset_P
PastBoundary(u, P, t) == get_period_start(P, t) > LastReset(u, P)

\* counter f of model m, 0 when the model has no entry
TokenOf(u, m, f) == IF m \in DOMAIN u.models THEN u.models[m][f] ELSE 0

\* what a result reports for token kind k
Reported(result, k) ==
  CASE k = "input" -> result.prompt_token_count
    [] k = "output" -> result.candidates_token_count
    [] k = "total" -> result.total_token_count

\* the lifetime counters of a store
Lifetime(u) ==
  [total_requests |-> u.total_requests,
   models |-> [m \in DOMAIN u.models |->
                 [k \in TokenKinds |-> u.models[m][LifetimeField(k)]]]]

\* no lifetime counter of v is below its value in u
LifetimeLeq(u, v) ==
  /\ u.total_requests <= v.total_requests
  /\ \A m \in DOMAIN u.models :
       /\ m \in DOMAIN v.models
       /\ \A k \in TokenKinds :
            u.models[m][LifetimeField(k)] <= v.models[m][LifetimeField(k)]

\* the lifetime counters of u after one more call of model_name with result
LifetimePlus(u, model_name, result) ==
  [total_requests |-> u.total_requests + 1,
   models |-> [m \in DOMAIN u.models \cup {model_name} |->
                 [k \in TokenKinds |->
                    (IF m \in DOMAIN u.models
                       THEN u.models[m][LifetimeField(k)] ELSE 0)
                    + (IF m = model_name THEN Reported(result, k) ELSE 0)]]]

\* ------------------------------------------------------------------------
\* C1: no step of the store decreases total_requests or a model's lifetime
\* input_tokens, output_tokens or total_tokens, and no entry disappears; a
\* rollover changes no lifetime counter: a refresh in which a rollover fires
\* leaves them all unchanged, and a recorded call in which one fires changes
\* them by exactly the call's own contribution.
\* ------------------------------------------------------------------------
C1_LifetimeNeverDecreases ==
  [][/\ LifetimeLeq(usage_data, usage_data')
     /\ (last'.op = "refresh" /\ (\E P \in Periods : Fires(usage_data, P, now')))
          => Lifetime(usage_data') = Lifetime(usage_data)
     /\ (last'.op = "record" /\ (\E P \in Periods : Fires(usage_data, P, now')))
          => Lifetime(usage_data') =
               LifetimePlus(usage_data, last'.model, last'.result)]_vars

\* a rollover has fired on a store that had counted calls
C1_Witness ==
  /\ last.op = "refresh"
  /\ last.elapsed > 0
  /\ usage_data.total_requests > 0
  /\ usage_data.daily_requests = 0
  /\ \E m \in DOMAIN usage_data.models : usage_data.models[m].input_tokens > 0

\* ------------------------------------------------------------------------
\* C2: after every operation that reads the clock, each period's last_reset
\* is the start of the window that contains the instant read.
\* ------------------------------------------------------------------------
C2_NoRolloverMissed ==
  \A P \in Periods : LastReset(usage_data, P) = get_period_start(P, now)

\* ------------------------------------------------------------------------
\* C3: a reconciliation resets exactly the periods whose rollover fires: a
\* period that fires has its request counter and every model's three token
\* counters at 0 and its last_reset at the start of the window read from the
\* clock; a period that does not fire keeps its request counter, its
\* last_reset and every model's token counters; the lifetime counters and the
\* set of models are unchanged.
\* ------------------------------------------------------------------------
C3_WindowIsolation ==
  [][last'.op = "refresh" =>
       /\ DOMAIN usage_data'.models = DOMAIN usage_data.models
       /\ Lifetime(usage_data') = Lifetime(usage_data)
       /\ \A P \in Periods :
            IF Fires(usage_data, P, now')
              THEN /\ Requests(usage_data', P) = 0
                   /\ LastReset(usage_data', P) = get_period_start(P, now')
                   /\ \A m \in DOMAIN usage_data'.models, k \in TokenKinds :
                        usage_data'.models[m][PeriodField(P, k)] = 0
              ELSE /\ Requests(usage_data', P) = Requests(usage_data, P)
                   /\ LastReset(usage_data', P) = LastReset(usage_data, P)
                   /\ \A m \in DOMAIN usage_data.models, k \in TokenKinds :
                        usage_data'.models[m][PeriodField(P, k)] =
                          usage_data.models[m][PeriodField(P, k)]]_vars

\* a refresh has reset the daily counters and left weekly and monthly
\* counts in place
C3_Witness ==
  /\ last.op = "refresh"
  /\ last.elapsed > 0
  /\ usage_data.daily_requests = 0
  /\ usage_data.weekly_requests > 0
  /\ usage_data.monthly_requests > 0
  /\ \E m \in DOMAIN usage_data.models :
       /\ usage_data.models[m].daily_input_tokens = 0
       /\ usage_data.models[m].weekly_input_tokens > 0
       /\ usage_data.models[m].monthly_input_tokens > 0

\* ------------------------------------------------------------------------
\* C4: a call recorded at an instant past period P's boundary leaves
\* P_requests = 1, the model's P token counters equal to the values the call
\* reports and every other model's P token counters at 0; every recorded
\* call leaves the lifetime counters at their previous values plus the
\* call's contribution.
\* ------------------------------------------------------------------------
C4_ResetBeforeUpdate ==
  [][last'.op = "record" =>
       /\ Lifetime(usage_data') =
            LifetimePlus(usage_data, last'.model, last'.result)
       /\ \A P \in Periods :
            PastBoundary(usage_data, P, now') =>
              /\ Requests(usage_data', P) = 1
              /\ \A m \in DOMAIN usage_data'.models, k \in TokenKinds :
                   usage_data'.models[m][PeriodField(P, k)] =
                     IF m = last'.model THEN Reported(last'.result, k) ELSE 0]_vars

\* ------------------------------------------------------------------------
\* C5: total_requests is the number of recorded calls and each model's
\* lifetime input_tokens, output_tokens and total_tokens are the sums of the
\* values reported for that model (a model without a call has no entry), and
\* no recorded call decreases them.  Stated for every sequence of calls, with
\* or without a boundary crossed.
\* ------------------------------------------------------------------------
RECURSIVE SumReported(_, _, _)
SumReported(calls, m, k) ==
  IF calls = << >> THEN 0
  ELSE (IF Head(calls).model = m THEN Reported(Head(calls).result, k) ELSE 0)
       + SumReported(Tail(calls), m, k)

C5_LifetimeIsSumOfReports ==
  /\ [](/\ usage_data.total_requests = Len(reported)
        /\ DOMAIN usage_data.models =
             {reported[i].model : i \in 1 .. Len(reported)}
        /\ \A m \in ModelNames, k \in TokenKinds :
             TokenOf(usage_data, m, LifetimeField(k)) = SumReported(reported, m, k))
  /\ [][last'.op = "record" => LifetimeLeq(usage_data, usage_data')]_vars

\* two calls of one model have been recorded, with different results
C5_Witness ==
  /\ Len(reported) = 2
  /\ reported[1].model = reported[2].model
  /\ reported[1].result # reported[2].result
  /\ usage_data.models[reported[1].model].output_tokens > 0

\* ------------------------------------------------------------------------
\* C6: a reconciliation that reads the clock CatchUpDays days after the
\* previous reading fires the daily, the weekly and the monthly rollover, and
\* leaves all three request counters and every model's period token counters
\* at 0, each last_reset at the start of the window of the instant read, and
\* the lifetime counters unchanged.
\* ------------------------------------------------------------------------
C6_CatchUp ==
  [][(last'.op = "refresh" /\ now' - now = CatchUpDays * OneDay) =>
       /\ Lifetime(usage_data') = Lifetime(usage_data)
       /\ \A P \in Periods :
            /\ Fires(usage_data, P, now')
            /\ Requests(usage_data', P) = 0
            /\ LastReset(usage_data', P) = get_period_start(P, now')
            /\ \A m \in DOMAIN usage_data'.models, k \in TokenKinds :
                 usage_data'.models[m][PeriodField(P, k)] = 0]_vars

\* a refresh CatchUpDays days after the previous reading, on a store that
\* had counted calls
C6_Witness ==
  /\ last.op = "refresh"
  /\ last.elapsed = CatchUpDays * OneDay
  /\ usage_data.total_requests > 0
  /\ usage_data.daily_requests = 0
  /\ usage_data.weekly_requests = 0
  /\ usage_data.monthly_requests = 0
  /\ usage_data.last_reset_weekly < usage_data.last_reset_daily
  /\ usage_data.last_reset_monthly < usage_data.last_reset_weekly

\* ------------------------------------------------------------------------
\* C7: a reconciliation at the instant of the previous reconciliation leaves
\* the store as it is, and so does a reconciliation at an instant in the
\* window that starts at last_reset_P for each period P.
\* ------------------------------------------------------------------------
C7_IdempotentReconciliation ==
  [][last'.op = "refresh" =>
       /\ now' = now => usage_data' = usage_data
       /\ (\A P \in Periods : ~PastBoundary(usage_data, P, now'))
            => usage_data' = usage_data]_vars

\* a second reconciliation at the instant of one that had reset counters
C7_Witness ==
  /\ last.op = "refresh"
  /\ last.elapsed = 0
  /\ usage_data.total_requests > 0
  /\ usage_data.daily_requests = 0

\* ------------------------------------------------------------------------
\* C8: update_usage_stats with a result that carries no usage metadata
\* leaves usage_data unchanged, reads no clock, records nothing and
\* schedules no refresh.
\* ------------------------------------------------------------------------
C8_NoMetadataNoChange ==
  [][last'.op = "skip" =>
       /\ usage_data' = usage_data
       /\ UNCHANGED <<now, refreshes, reported>>]_vars

\* a call without usage metadata on a store that had counted calls
C8_Witness ==
  /\ last.op = "skip"
  /\ usage_data.total_requests > 0
  /\ last.model \notin DOMAIN usage_data.models

\* ------------------------------------------------------------------------
\* C9: with the handlers run statement by statement, the store a sensor
\* reads is never partially updated: the read falls between two handlers;
\* every call counted in total_requests has its tokens in its model's
\* lifetime counters; a period's request counter is 0 exactly when every
\* model's token counters of the period are 0 (every call has a prompt
\* token); and each last_reset is the one the latest rollover check left.
\* ------------------------------------------------------------------------
WholeSnapshot ==
  /\ usage_data.total_requests = Len(reported)
  /\ \A m \in ModelNames, k \in TokenKinds :
       TokenOf(usage_data, m, LifetimeField(k)) = SumReported(reported, m, k)
  /\ \A P \in Periods :
       /\ Requests(usage_data, P) = 0 =>
            \A m \in DOMAIN usage_data.models, k \in TokenKinds :
              usage_data.models[m][PeriodField(P, k)] = 0
       /\ Requests(usage_data, P) > 0 =>
            \E m \in DOMAIN usage_data.models :
              usage_data.models[m][PeriodField(P, "input")] > 0
  /\ usage_data.last_reset_daily = get_period_start("daily", now)
  /\ usage_data.last_reset_weekly = get_period_start("weekly", now)
  /\ MonthOf(usage_data.last_reset_monthly) = MonthOf(now)

C9_NoPartialSnapshot == last.op = "read" => (pc = Idle /\ WholeSnapshot)

\* a sensor read after a recorded call and a rollover
C9_Witness ==
  /\ last.op = "read"
  /\ usage_data.total_requests > 0
  /\ usage_data.daily_requests = 0
  /\ usage_data.weekly_requests > 0

\* ------------------------------------------------------------------------
\* C10: a call recorded for a model without an entry creates the entry with
\* its lifetime, daily, weekly and monthly token counters equal to the
\* reported values; every other model keeps its lifetime counters, and each
\* of its period counters is unchanged, or 0 when that period's rollover
\* fires in the call; no operation removes an entry.
\* ------------------------------------------------------------------------
NewEntryHoldsReport ==
  \A k \in TokenKinds :
    /\ usage_data'.models[last'.model][LifetimeField(k)] = Reported(last'.result, k)
    /\ \A P \in Periods :
         usage_data'.models[last'.model][PeriodField(P, k)] =
           Reported(last'.result, k)

C10_LazyModelCreation ==
  [][/\ DOMAIN usage_data.models \subseteq DOMAIN usage_data'.models
     /\ (last'.op = "record" /\ last'.model \notin DOMAIN usage_data.models) =>
          /\ DOMAIN usage_data'.models =
               DOMAIN usage_data.models \cup {last'.model}
          /\ NewEntryHoldsReport
          /\ \A m \in DOMAIN usage_data.models, k \in TokenKinds :
               /\ usage_data'.models[m][LifetimeField(k)] =
                    usage_data.models[m][LifetimeField(k)]
               /\ \A P \in Periods :
                    usage_data'.models[m][PeriodField(P, k)] =
                      IF Fires(usage_data, P, now') THEN 0
                      ELSE usage_data.models[m][PeriodField(P, k)]]_vars

\* C10 as first stated: the call leaves every other model's entry unchanged
C10_OtherEntriesUnchanged ==
  [][/\ DOMAIN usage_data.models \subseteq DOMAIN usage_data'.models
     /\ (last'.op = "record" /\ last'.model \notin DOMAIN usage_data.models) =>
          /\ NewEntryHoldsReport
          /\ \A m \in DOMAIN usage_data.models :
               usage_data'.models[m] = usage_data.models[m]]_vars

\* a second model has got its entry, in a call in whose reconciliation the
\* daily rollover fired
C10_Witness ==
  /\ last.op = "record"
  /\ Len(reported) = 2
  /\ reported[1].model # reported[2].model
  /\ usage_data.daily_requests = 1
  /\ usage_data.weekly_requests = 2
  /\ usage_data.models[reported[1].model].daily_input_tokens = 0
  /\ usage_data.models[reported[1].model].weekly_input_tokens > 0

\* ------------------------------------------------------------------------
\* C11: under the polling schedule, from the moment no call is recorded any
\* more, whenever the clock is past period P's boundary the store eventually
\* has P's request counter and every model's P token counters at 0 and
\* last_reset_P at the start of the window the clock is in.
\* ------------------------------------------------------------------------
C11_IdleRollover ==
  \A P \in Periods :
    (Len(reported) = MaxCalls /\ PastBoundary(usage_data, P, now))
      ~> (/\ Requests(usage_data, P) = 0
          /\ LastReset(usage_data, P) = get_period_start(P, now)
          /\ \A m \in DOMAIN usage_data.models, k \in TokenKinds :
               usage_data.models[m][PeriodField(P, k)] = 0)

\* a poll in February has reset the monthly counts of January
C11_Witness ==
  /\ last.op = "refresh"
  /\ MonthOf(now) = 2
  /\ usage_data.total_requests = MaxCalls
  /\ usage_data.monthly_requests = 0
  /\ usage_data.last_reset_monthly = get_period_start("monthly", now)
  /\ \E m \in DOMAIN usage_data.models : usage_data.models[m].input_tokens > 0

\* the four scopes of a model's token counters, as the field of kind k
ScopeField(scope, k) ==
  IF scope = "lifetime" THEN LifetimeField(k) ELSE PeriodField(scope, k)

Scopes == {"lifetime"} \cup Periods

\* every recorded call reported total = prompt + candidates
ReportsConsistent ==
  \A i \in 1 .. Len(reported) :
    reported[i].result.total_token_count =
      reported[i].result.prompt_token_count
        + reported[i].result.candidates_token_count

\* ------------------------------------------------------------------------
\* C12: if every recorded call reported a total equal to input plus output,
\* then for every model and every scope (lifetime, daily, weekly, monthly)
\* the scope's total tokens equal its input tokens plus its output tokens,
\* in every reachable state, rollovers included.
\* ------------------------------------------------------------------------
C12_TotalsAdditive ==
  ReportsConsistent =>
    \A m \in DOMAIN usage_data.models, scope \in Scopes :
      usage_data.models[m][ScopeField(scope, "total")] =
        usage_data.models[m][ScopeField(scope, "input")]
          + usage_data.models[m][ScopeField(scope, "output")]

\* a daily rollover has cleared one consistent call and a second consistent
\* call has been recorded in the new day
C12_Witness ==
  /\ ReportsConsistent
  /\ Len(reported) = 2
  /\ last.op = "record"
  /\ \E m \in DOMAIN usage_data.models :
       /\ usage_data.models[m].daily_total_tokens > 0
       /\ usage_data.models[m].daily_total_tokens
            < usage_data.models[m].weekly_total_tokens
       /\ usage_data.models[m].weekly_total_tokens
            = usage_data.models[m].total_tokens

\* ------------------------------------------------------------------------
\* C13: for every instant at, get_period_start returns 00:00 of at's day for
\* "daily", 00:00 of the Monday (weekday 0) of at's week for "weekly", and
\* 00:00 of day 1 of at's month for "monthly"; each of these results r has
\* r <= at and get_period_start(P, r) = r, the weekly one has
\* at < r + 7 days, and any other tag returns at unchanged.
\* ------------------------------------------------------------------------
C13_PeriodBoundary ==
  LET P == period_start.period
      at == period_start.at
      r == period_start.start
  IN /\ P = "daily" =>
          r % TicksPerDay = 0 /\ DayIndex(r) = DayIndex(at)
     /\ P = "weekly" =>
          /\ r % TicksPerDay = 0
          /\ DayIndex(r) % 7 = 0
          /\ at < r + 7 * TicksPerDay
     /\ P = "monthly" =>
          /\ r % TicksPerDay = 0
          /\ DateTable[DayIndex(r)].day = 1
          /\ DateTable[DayIndex(r)].month = DateTable[DayIndex(at)].month
          /\ DateTable[DayIndex(r)].year = DateTable[DayIndex(at)].year
     /\ P \in Periods => r <= at /\ get_period_start(P, r) = r
     /\ P \notin Periods => r = at

\* the weekly start of a week that spans a month boundary, asked for in the
\* middle of a day
C13_Witness ==
  /\ period_start.period = "weekly"
  /\ period_start.at % TicksPerDay # 0
  /\ MonthOf(period_start.start) # MonthOf(period_start.at)
  /\ period_start.start < StartOfDay(period_start.at)

\* ------------------------------------------------------------------------
\* C14: a step of the config flow creates an entry only when it was given a
\* key, the validation call raised nothing and no entry was configured; a
\* PermissionDenied gives the form with error invalid_auth, another
\* GoogleAPIError cannot_connect, any other exception unknown, and in every
\* error case and in every step taken while an entry is configured the
\* entries stay as they were; nothing else creates an entry, and the store
\* is constructed only when an entry exists.
\* ------------------------------------------------------------------------
C14_ConfigurationOutcomes ==
  /\ [](Constructed => entries # {})
  /\ [][last'.op # "step_user" => entries' = entries]_vars
  /\ [][last'.op = "step_user" =>
         /\ entries' # entries <=> flow'.type = "create_entry"
         /\ entries' # entries =>
              flow'.has_input /\ flow'.raised = "none" /\ entries = {}
         /\ flow'.raised = "PermissionDenied" =>
              flow'.type = "form" /\ flow'.error = "invalid_auth"
         /\ flow'.raised = "ServiceUnavailable" =>
              flow'.type = "form" /\ flow'.error = "cannot_connect"
         /\ flow'.raised = "ValueError" =>
              flow'.type = "form" /\ flow'.error = "unknown"
         /\ flow'.error # "none" => entries' = entries
         /\ entries # {} => entries' = entries /\ flow'.type = "form"]_vars

\* a second attempt with a key the service accepts, made while the store of
\* the first entry is running: the form comes back and no entry is added
C14_Witness ==
  /\ last.op = "step_user"
  /\ Constructed
  /\ entries = {UniqueId}
  /\ flow.has_input /\ flow.raised = "none"
  /\ flow.type = "form" /\ flow.error = "unknown"

\* ------------------------------------------------------------------------
\* C15: every update_usage_stats call that records usage issues exactly one
\* refresh signal: it ends by returning from its one call of
\* async_schedule_refresh, made after all request and token counters of the
\* call have been updated; nothing else in a handler makes that call, and a
\* call skipped for missing usage metadata makes none.
\* ------------------------------------------------------------------------
C15_RefreshSignal ==
  /\ [][(pc.handler = "record" /\ pc' = Idle) =>
         /\ pc.at = "schedule_refresh"
         /\ last'.op = "record"
         /\ refreshes' = refreshes + 1
         /\ usage_data' = usage_data
         /\ usage_data.total_requests = Len(reported)
         /\ reported[Len(reported)] = [model |-> pc.model, result |-> pc.result]]_vars
  /\ [][refreshes' # refreshes =>
         pc.handler = "record" /\ pc.at = "schedule_refresh"]_vars
  /\ [][last'.op = "skip" => refreshes' = refreshes]_vars

\* ------------------------------------------------------------------------
\* C16: a read of any sensor async_setup_entry has created leaves the store
\* unchanged: a token sensor exists only for a model that has an entry, so
\* its lookup in the lazily-defaulting models mapping creates no entry, and
\* no read alters a counter or a last_reset value.
\* ------------------------------------------------------------------------
C16_ReadsLeaveStore ==
  /\ [](sensors \subseteq DOMAIN usage_data.models)
  /\ [][last'.op = "read" =>
         /\ usage_data' = usage_data
         /\ UNCHANGED <<now, refreshes, reported>>]_vars

\* a token sensor of one model is read while the other model, recorded after
\* the platform was set up, has an entry and no sensor
C16_Witness ==
  /\ last.op = "read"
  /\ last.model \in sensors
  /\ sensors # DOMAIN usage_data.models
  /\ usage_data.models[last.model].total_tokens > 0

\* the recorded calls made at or after instant since
CallsSince(since) == {i \in 1 .. Len(stamps) : stamps[i] >= since}

\* what the first n recorded calls made at or after since reported for
\* model m as token kind k, summed
RECURSIVE SumSince(_, _, _, _)
SumSince(n, m, k, since) ==
  IF n = 0 THEN 0
  ELSE (IF reported[n].model = m /\ stamps[n] >= since
          THEN Reported(reported[n].result, k) ELSE 0)
       + SumSince(n - 1, m, k, since)

\* ------------------------------------------------------------------------
\* C17: under a non-decreasing clock, in every reachable state and for each
\* period P, P_requests is the number of recorded calls made at or after
\* last_reset_P, and each model's P input, output and total tokens are the
\* sums of what exactly those calls reported for the model.
\* ------------------------------------------------------------------------
C17_WindowAccounting ==
  /\ Len(stamps) = Len(reported)
  /\ \A P \in Periods :
       /\ Requests(usage_data, P)
            = Cardinality(CallsSince(LastReset(usage_data, P)))
       /\ \A m \in ModelNames, k \in TokenKinds :
            TokenOf(usage_data, m, PeriodField(P, k))
              = SumSince(Len(stamps), m, k, LastReset(usage_data, P))

\* two calls in one week, the first before and the second after the daily
\* boundary the store last crossed
C17_Witness ==
  /\ Len(stamps) = 2
  /\ stamps[1] < usage_data.last_reset_daily
  /\ stamps[2] >= usage_data.last_reset_daily
  /\ stamps[1] >= usage_data.last_reset_weekly
  /\ usage_data.daily_requests = 1
  /\ usage_data.weekly_requests = 2

\* ------------------------------------------------------------------------
\* C18: under a non-decreasing clock, in every reachable state
\* daily_requests <= weekly_requests <= total_requests and
\* daily_requests <= monthly_requests <= total_requests, and each model's
\* input, output and total token counters are ordered the same way; and in
\* every reconciliation in which the weekly or the monthly rollover fires,
\* the daily rollover fires as well.
\* ------------------------------------------------------------------------
C18_WindowNesting ==
  /\ [](/\ usage_data.daily_requests <= usage_data.weekly_requests
         /\ usage_data.weekly_requests <= usage_data.total_requests
         /\ usage_data.daily_requests <= usage_data.monthly_requests
         /\ usage_data.monthly_requests <= usage_data.total_requests
         /\ \A m \in DOMAIN usage_data.models, k \in TokenKinds :
              LET s == usage_data.models[m]
              IN /\ s[PeriodField("daily", k)] <= s[PeriodField("weekly", k)]
                 /\ s[PeriodField("weekly", k)] <= s[LifetimeField(k)]
                 /\ s[PeriodField("daily", k)] <= s[PeriodField("monthly", k)]
                 /\ s[PeriodField("monthly", k)] <= s[LifetimeField(k)])
  /\ [][(/\ last'.op \in {"refresh", "record"}
          /\ \/ Fires(usage_data, "weekly", now')
             \/ Fires(usage_data, "monthly", now'))
         => Fires(usage_data, "daily", now')]_vars

\* a call on a Sunday and one on the Monday after it, in the same month: the
\* daily and the weekly rollover have fired together, the monthly has not
C18_Witness ==
  /\ last.op = "record"
  /\ usage_data.daily_requests = 1
  /\ usage_data.weekly_requests = 1
  /\ usage_data.monthly_requests = 2
  /\ usage_data.total_requests = 2
  /\ usage_data.last_reset_weekly = usage_data.last_reset_daily
====
